---- MODULE Spec2Model ----
(***************************************************************************)
(* Permissioned ledger for herb traceability: the PermissionedBlockchain   *)
(* class (node registry, transaction admission, block mining, chain        *)
(* validation) together with the AyurvedicHerbContract rule engine.        *)
(*                                                                         *)
(* Conventions of the model                                                *)
(*  - Date.now() is the variable now, counted in days: the ledger is       *)
(*    constructed on day 0, a 28 February, and days 1..31 are the days of  *)
(*    the following March.                                                 *)
(*  - uuidv4() is a counter: the n-th identifier drawn is ToString(n).     *)
(*  - sha256 is collision free: a digest is the record [pre |-> preimage]. *)
(*    The leading hexadecimal characters of a digest are a fixed function  *)
(*    (Checksum) of the preimage.  A string that is stored where a digest  *)
(*    is expected ('0', 'GENESIS_SIGNATURE') is the record [lit |-> s].    *)
(*  - a JavaScript object is a record holding exactly the properties that  *)
(*    are present; a missing property reads as Undefined.                  *)
(*  - decimal quantities of the rule tables are scaled to integers:        *)
(*    degrees by 10000, quality metrics by 100.                            *)
(*  - result is the outcome of the call made by the last step: the value   *)
(*    returned or the Error thrown, with the transaction a refused         *)
(*    submission had built; rejected collects the ids of the transactions  *)
(*    the contract refused.                                                *)
(*  - mining is the block a mineBlock call is searching a nonce for, in     *)
(*    the specification that follows the proof-of-work loop iteration by   *)
(*    iteration; everywhere else a mineBlock call is one step.             *)
(*  - limiter is the (maxRequests, windowMs) pair a rateLimit middleware   *)
(*    was built with, rateLimits the module's Map from key to recorded     *)
(*    timestamps, and served the timestamps of the requests each key had   *)
(*    handed to next(), in order; the clock of that middleware is now,     *)
(*    read as milliseconds.                                                *)
(***************************************************************************)
EXTENDS Integers, Sequences, FiniteSets, TLC

VARIABLES chain, pendingTransactions, nodes, now, nextId, result, rejected, tampered,
          workload, mining, rateLimits, served, limiter

vars == <<chain, pendingTransactions, nodes, now, nextId, result, rejected, tampered,
          workload, mining, rateLimits, served, limiter>>

(***************************************************************************)
(* Bounds of the model                                                     *)
(***************************************************************************)
MaxTime == 1
MaxTx == 2

(***************************************************************************)
(* JavaScript values                                                       *)
(***************************************************************************)
Undefined == "undefined"

Prop(obj, name) == IF name \in DOMAIN obj THEN obj[name] ELSE Undefined

Has(obj, name) == name \in DOMAIN obj

Includes(arr, x) == \E i \in 1..Len(arr) : arr[i] = x

Lit(s) == [lit |-> s]

sha256(pre) == [pre |-> pre]

(***************************************************************************)
(* Calendar                                                                *)
(***************************************************************************)
toDateString(t) == t

\* zero-based month of day t, for t up to the end of March
getMonth(t) == IF t = 0 THEN 1 ELSE 2

(***************************************************************************)
(* AyurvedicHerbContract: rule tables                                      *)
(***************************************************************************)
geoFencing ==
  [ashwagandha |->
     << [region |-> "Rajasthan",      lat |-> <<240000, 300000>>, lng |-> <<690000, 780000>>],
        [region |-> "Madhya Pradesh", lat |-> <<210000, 260000>>, lng |-> <<740000, 820000>>],
        [region |-> "Gujarat",        lat |-> <<200000, 250000>>, lng |-> <<680000, 750000>>] >>]

seasonalRestrictions ==
  [ashwagandha |-> <<10, 11, 12, 1, 2>>,
   tulsi       |-> <<3, 4, 5, 6, 7, 8>>,
   neem        |-> <<1, 2, 3, 4, 5, 6, 7, 8, 9, 10, 11, 12>>]

qualityThresholds ==
  [ashwagandha |-> [moistureMax |-> 1200, withanolideMin |-> 30,
                    pesticideMax |-> 1, heavyMetalsMax |-> 1000]]

dailyLimits == [ashwagandha |-> 50, tulsi |-> 25, neem |-> 100]

certifiedLabs == <<"LAB001", "LAB002", "LAB003">>

(***************************************************************************)
(* AyurvedicHerbContract: rules.  A thrown Error is the record             *)
(* [valid |-> FALSE, rule |-> ..., reason |-> ...].                        *)
(***************************************************************************)
Throw(rule, reason) == [valid |-> FALSE, rule |-> rule, reason |-> reason]

validateGeoFencing(species, gps) ==
  IF ~Has(geoFencing, species) THEN FALSE
  ELSE \E i \in 1..Len(geoFencing[species]) :
         LET rule == geoFencing[species][i] IN
           /\ gps.latitude >= rule.lat[1]
           /\ gps.latitude <= rule.lat[2]
           /\ gps.longitude >= rule.lng[1]
           /\ gps.longitude <= rule.lng[2]

validateSeason(species, timestamp) ==
  IF ~Has(seasonalRestrictions, species) THEN FALSE
  ELSE LET month == getMonth(timestamp) + 1
       IN  Includes(seasonalRestrictions[species], month)

RECURSIVE SumQuantity(_)
SumQuantity(txs) ==
  IF txs = <<>> THEN 0 ELSE Head(txs).data.quantity + SumQuantity(Tail(txs))

todaysCollectionsOf(farmerId, species, existingTransactions, today) ==
  SelectSeq(existingTransactions,
            LAMBDA tx : /\ tx.type = "CollectionEvent"
                        /\ Prop(tx.data, "farmerId") = farmerId
                        /\ Prop(tx.data, "species") = species
                        /\ toDateString(tx.timestamp) = today)

\* today is toDateString of the clock read inside the function (new Date())
validateDailyLimit(farmerId, species, quantity, existingTransactions, today) ==
  IF ~Has(dailyLimits, species) THEN FALSE
  ELSE LET limit == dailyLimits[species]
           todaysCollections ==
             todaysCollectionsOf(farmerId, species, existingTransactions, today)
           totalToday == SumQuantity(todaysCollections)
       IN  (totalToday + quantity) <= limit

validateQuality(species, qualityMetrics) ==
  IF ~Has(qualityThresholds, species)
    THEN [valid |-> FALSE, reason |-> "No quality rules defined for species"]
  ELSE LET thresholds == qualityThresholds[species] IN
    IF Has(qualityMetrics, "moisture") /\ qualityMetrics.moisture > thresholds.moistureMax
      THEN [valid |-> FALSE, reason |-> "Moisture content exceeds maximum allowed"]
    ELSE IF /\ Has(qualityMetrics, "withanolide")
            /\ qualityMetrics.withanolide # 0
            /\ qualityMetrics.withanolide < thresholds.withanolideMin
      THEN [valid |-> FALSE, reason |-> "Withanolide content below minimum required"]
    ELSE IF Has(qualityMetrics, "pesticide") /\ qualityMetrics.pesticide > thresholds.pesticideMax
      THEN [valid |-> FALSE, reason |-> "Pesticide residue exceeds maximum allowed"]
    ELSE IF Has(qualityMetrics, "heavyMetals") /\ qualityMetrics.heavyMetals > thresholds.heavyMetalsMax
      THEN [valid |-> FALSE, reason |-> "Heavy metals exceed maximum allowed"]
    ELSE [valid |-> TRUE, reason |-> ""]

generateContractHash(transaction) ==
  sha256([transactionId |-> transaction.id,
          timestamp     |-> transaction.timestamp,
          type          |-> transaction.type,
          nodeId        |-> transaction.nodeId])

\* variant of executeCollectionEvent that validates the season before the
\* geo-fence
executeCollectionEvent_seasonFirst(transaction, existingTransactions, today) ==
  LET data == transaction.data
      farmerId == Prop(data, "farmerId")
      species == Prop(data, "species")
  IN
  IF Has(geoFencing, species) /\ ~Has(data, "gps")
    THEN Throw("TypeError", "Cannot read properties of undefined")
  ELSE IF ~validateSeason(species, transaction.timestamp)
    THEN Throw("seasonalRestriction", "Collection not allowed: cannot be collected in current season")
  ELSE IF ~validateGeoFencing(species, data.gps)
    THEN IF ~Has(data, "gps")
           THEN Throw("TypeError", "Cannot read properties of undefined")
           ELSE Throw("geoFencing", "Collection not allowed: GPS location is outside approved zones")
  ELSE IF \/ ~Has(data, "quantity")
          \/ ~validateDailyLimit(farmerId, species, data.quantity, existingTransactions, today)
    THEN Throw("dailyLimit", "Collection not allowed: Daily limit exceeded for farmer")
  ELSE IF Has(data, "qualityMetrics") /\ ~validateQuality(species, data.qualityMetrics).valid
    THEN Throw("quality", validateQuality(species, data.qualityMetrics).reason)
  ELSE [valid |-> TRUE,
        contractHash |-> generateContractHash(transaction),
        validationRules |->
          [geoFencing |-> "PASSED",
           seasonalRestriction |-> "PASSED",
           dailyLimit |-> "PASSED",
           quality |-> IF Has(data, "qualityMetrics") THEN "PASSED" ELSE "NOT_TESTED"]]

executeCollectionEvent(transaction, existingTransactions, today) ==
  LET data == transaction.data
      farmerId == Prop(data, "farmerId")
      species == Prop(data, "species")
  IN
  IF Has(geoFencing, species) /\ ~Has(data, "gps")
    THEN Throw("TypeError", "Cannot read properties of undefined")
  ELSE IF ~validateGeoFencing(species, data.gps)
    THEN IF ~Has(data, "gps")
           THEN Throw("TypeError", "Cannot read properties of undefined")
           ELSE Throw("geoFencing", "Collection not allowed: GPS location is outside approved zones")
  ELSE IF ~validateSeason(species, transaction.timestamp)
    THEN Throw("seasonalRestriction", "Collection not allowed: cannot be collected in current season")
  ELSE IF \/ ~Has(data, "quantity")
          \/ ~validateDailyLimit(farmerId, species, data.quantity, existingTransactions, today)
    THEN Throw("dailyLimit", "Collection not allowed: Daily limit exceeded for farmer")
  ELSE IF Has(data, "qualityMetrics") /\ ~validateQuality(species, data.qualityMetrics).valid
    THEN Throw("quality", validateQuality(species, data.qualityMetrics).reason)
  ELSE [valid |-> TRUE,
        contractHash |-> generateContractHash(transaction),
        validationRules |->
          [geoFencing |-> "PASSED",
           seasonalRestriction |-> "PASSED",
           dailyLimit |-> "PASSED",
           quality |-> IF Has(data, "qualityMetrics") THEN "PASSED" ELSE "NOT_TESTED"]]

batchExistsIn(batchId, existingTransactions) ==
  \E i \in 1..Len(existingTransactions) :
     LET tx == existingTransactions[i] IN
       Prop(tx.data, "batchId") = batchId \/ tx.id = batchId

executeProcessingStep(transaction, existingTransactions) ==
  LET data == transaction.data
      batchId == Prop(data, "batchId")
      processingType == Prop(data, "processingType")
  IN
  IF ~batchExistsIn(batchId, existingTransactions)
    THEN Throw("batchTraceability", "Processing not allowed: Batch not found in blockchain")
  ELSE IF processingType \in {"drying", "grinding"} /\ ~Has(data, "conditions")
    THEN Throw("TypeError", "Cannot read properties of undefined")
  ELSE IF /\ processingType = "drying"
          /\ Has(data.conditions, "temperature")
          /\ data.conditions.temperature > 60
    THEN Throw("processingConditions", "Drying temperature too high - may degrade active compounds")
  ELSE IF /\ processingType = "grinding"
          /\ Has(data.conditions, "meshSize")
          /\ data.conditions.meshSize < 80
    THEN Throw("processingConditions", "Mesh size too coarse for pharmaceutical grade requirements")
  ELSE [valid |-> TRUE,
        contractHash |-> generateContractHash(transaction),
        validationRules |->
          [batchTraceability |-> "PASSED", processingConditions |-> "PASSED"]]

executeQualityTest(transaction, existingTransactions) ==
  LET data == transaction.data
      batchId == Prop(data, "batchId")
      labId == Prop(data, "labId")
  IN
  IF ~batchExistsIn(batchId, existingTransactions)
    THEN Throw("batchTraceability", "Quality test not allowed: Batch not found")
  ELSE IF ~Includes(certifiedLabs, labId)
    THEN Throw("labCertification", "Lab is not certified for testing")
  ELSE [valid |-> TRUE,
        contractHash |-> generateContractHash(transaction),
        validationRules |->
          [batchTraceability |-> "PASSED",
           labCertification |-> "PASSED",
           testValidity |-> "PASSED"]]

(***************************************************************************)
(* PermissionedBlockchain: pure helpers                                    *)
(***************************************************************************)
difficulty == 2

HexBase == 16

allowedTypes == <<"farmer", "processor", "lab", "manufacturer", "regulator">>

getNodePermissions(nodeType) ==
  LET permissions ==
        [farmer       |-> <<"create_collection_event", "read_own_data">>,
         processor    |-> <<"create_processing_step", "read_batch_data">>,
         lab          |-> <<"create_quality_test", "read_test_data">>,
         manufacturer |-> <<"create_manufacturing_record", "generate_qr">>,
         regulator    |-> <<"read_all_data", "create_compliance_report", "flag_violations">>]
  IN  IF Has(permissions, nodeType) THEN permissions[nodeType] ELSE <<>>

getRequiredPermission(type) ==
  LET permissionMap ==
        [CollectionEvent     |-> "create_collection_event",
         ProcessingStep      |-> "create_processing_step",
         QualityTest         |-> "create_quality_test",
         ManufacturingRecord |-> "create_manufacturing_record",
         ComplianceReport    |-> "create_compliance_report"]
  IN  IF Has(permissionMap, type) THEN permissionMap[type] ELSE "read_own_data"

\* variant of calculateHash whose digest does not cover the transactions
calculateHash_noTransactions(block) ==
  sha256([sum   |-> (IF Has(block, "index") THEN block.index ELSE 0)
                    + (IF Has(block, "timestamp") THEN block.timestamp ELSE 0),
          txs   |-> <<>>,
          prev  |-> IF Has(block, "previousHash") THEN block.previousHash ELSE Lit(""),
          nonce |-> IF Has(block, "nonce") THEN block.nonce ELSE 0])

\* the argument of sha256 in calculateHash: index and timestamp are added as
\* numbers before the concatenation with the JSON text turns the sum into text
calculateHash(block) ==
  sha256([sum   |-> (IF Has(block, "index") THEN block.index ELSE 0)
                    + (IF Has(block, "timestamp") THEN block.timestamp ELSE 0),
          txs   |-> IF Has(block, "transactions") THEN block.transactions ELSE <<>>,
          prev  |-> IF Has(block, "previousHash") THEN block.previousHash ELSE Lit(""),
          nonce |-> IF Has(block, "nonce") THEN block.nonce ELSE 0])

\* Stand-in for the leading characters of a sha256 digest of a block: a fixed
\* function of the preimage.  50 = 0x32, the first byte of sha256("0[]0").
\* One preimage in HexBase * HexBase has a digest that starts with two zeros
\* whatever its nonce; here the preimages with nonce 0 that do include the
\* block of index + timestamp = 1 that holds one transaction.
Checksum(pre) ==
  (50 + 7 * pre.sum + 199 * Len(pre.txs) + pre.nonce) % (HexBase * HexBase)

RECURSIVE HexChars(_, _)
HexChars(n, len) ==
  IF len = 0 THEN <<>> ELSE Append(HexChars(n \div HexBase, len - 1), n % HexBase)

\* hash.substring(0, len) of a digest computed by calculateHash
substring(hash, len) ==
  SubSeq(HexChars(Checksum(hash.pre), 2), 1, len)

\* Array(len + 1).join('0')
Zeros(len) == [i \in 1..len |-> 0]

signTransaction(transaction, nodeId) ==
  sha256([id        |-> transaction.id,
          type      |-> transaction.type,
          data      |-> transaction.data,
          timestamp |-> transaction.timestamp,
          nodeId    |-> nodeId])

getLatestBlock(c) == c[Len(c)]

RECURSIVE getAllTransactions(_)
getAllTransactions(c) ==
  IF c = <<>> THEN <<>>
  ELSE getAllTransactions(SubSeq(c, 1, Len(c) - 1)) \o c[Len(c)].transactions

\* variant of getTransactionById that also searches the pool
getTransactionById_searchesPool(c, transactionId) ==
  LET allTransactions == getAllTransactions(c) \o pendingTransactions
      found == SelectSeq(allTransactions, LAMBDA tx : tx.id = transactionId)
  IN  IF found = <<>> THEN <<>> ELSE <<Head(found)>>

\* Array.prototype.find: <<>> stands for undefined, <<tx>> for the match
getTransactionById(c, transactionId) ==
  LET allTransactions == getAllTransactions(c)
      found == SelectSeq(allTransactions, LAMBDA tx : tx.id = transactionId)
  IN  IF found = <<>> THEN <<>> ELSE <<Head(found)>>

getTransactionsByBatchId(c, batchId) ==
  LET allTransactions == getAllTransactions(c)
  IN  SelectSeq(allTransactions,
                LAMBDA tx : Prop(tx.data, "batchId") = batchId \/ tx.id = batchId)

isChainValid(c) ==
  \A i \in 2..Len(c) :
     LET currentBlock == c[i]
         previousBlock == c[i - 1]
     IN  /\ currentBlock.hash = calculateHash(currentBlock)
         /\ currentBlock.previousHash = previousBlock.hash

\* the proof-of-work loop of mineBlock.  The nonce is incremented before the
\* first digest is computed (block.hash is undefined on entry), so the loop
\* stops at the first nonce >= 1 whose digest passes; Checksum has period
\* HexBase * HexBase in the nonce, which bounds the search.
\* variant of the loop body that computes the digest before the increment
withNonce_staleHash(block, n) ==
  LET b1 == [block EXCEPT !.nonce = n]
  IN  [hash |-> calculateHash([block EXCEPT !.nonce = n - 1])] @@ b1

withNonce(block, n) ==
  LET b1 == [block EXCEPT !.nonce = n]
  IN  [hash |-> calculateHash(b1)] @@ b1

meetsDifficulty(block) ==
  Has(block, "hash") /\ substring(block.hash, difficulty) = Zeros(difficulty)

proofOfWork(block) ==
  IF meetsDifficulty(block) THEN block
  ELSE LET first == block.nonce + 1
           found == CHOOSE n \in first..(first + HexBase * HexBase) :
                      /\ meetsDifficulty(withNonce(block, n))
                      /\ \A m \in first..(n - 1) : ~meetsDifficulty(withNonce(block, m))
       IN  withNonce(block, found)

(***************************************************************************)
(* Requests issued by the callers of the ledger                            *)
(***************************************************************************)
Rajasthan == [latitude |-> 271952, longitude |-> 733119]

Delhi == [latitude |-> 286139, longitude |-> 772090]

Chennai == [latitude |-> 130827, longitude |-> 802707]

Collect(qty, gps) ==
  [farmerId |-> "F1", species |-> "ashwagandha", gps |-> gps, quantity |-> qty]

CollectHerb(species, qty, gps) == [Collect(qty, gps) EXCEPT !.species = species]

Drying(batchId) ==
  [batchId |-> batchId, processingType |-> "drying", conditions |-> [temperature |-> 50]]

\* a quality test of a batch, signed off in the payload by labId
Test(batchId, labId) == [batchId |-> batchId, labId |-> labId, testType |-> "moisture"]

\* a manufacturing record for a batch
Product(batchId) == [batchId |-> batchId, productName |-> "Ashwagandha Capsules"]

\* a compliance report on a batch
Report(batchId) == [batchId |-> batchId, finding |-> "compliant"]

WithQuality(data, qualityMetrics) == [qualityMetrics |-> qualityMetrics] @@ data

\* a collection whose moisture content is above the threshold of the species
Moist(data) == [qualityMetrics |-> [moisture |-> 1500]] @@ data

\* The callers' requests are grouped in workloads; a behaviour draws its
\* requests from one workload, chosen when the ledger is constructed.
Workloads == {"ceiling", "batch", "geo", "roles", "herbs", "quality", "kinds", "products", "reports", "lab"}

RegisterRequests(w) ==
  CASE w = "ceiling" -> { <<"F1", "farmer">>, <<"F1", "admin">> }
    [] w = "batch"   -> { <<"F1", "farmer">>, <<"P1", "processor">> }
    [] w = "geo"     -> { <<"F1", "farmer">> }
    [] w = "roles"   -> { <<"F1", "farmer">>, <<"F1", "processor">>, <<"A1", "admin">> }
    [] w = "herbs"   -> { <<"F1", "farmer">> }
    [] w = "quality" -> { <<"F1", "farmer">> }
    [] w = "kinds"   -> { <<"F1", "farmer">> }
    [] w = "products" -> { <<"MF1", "manufacturer">> }
    [] w = "reports" -> { <<"R1", "regulator">> }
    [] w = "lab"     -> { <<"F1", "farmer">>, <<"L9", "lab">> }
    [] w = "pow"     -> { <<"F1", "farmer">> }

SubmitRequests(w) ==
  CASE w = "ceiling" ->
         { <<"F1", "CollectionEvent", Collect(30, Rajasthan)>>,
           <<"F1", "CollectionEvent", Collect(25, Rajasthan)>>,
           <<"F1", "CollectionEvent", Collect(15, Rajasthan)>>,
           <<"Z9", "CollectionEvent", Collect(15, Rajasthan)>> }
    [] w = "batch" ->
         { <<"F1", "CollectionEvent", [batchId |-> "B1"] @@ Collect(15, Rajasthan)>>,
           <<"P1", "ProcessingStep", Drying("1")>>,
           <<"P1", "ProcessingStep", Drying("B1")>>,
           <<"P1", "CollectionEvent", Collect(15, Rajasthan)>> }
    [] w = "geo" ->
         { <<"F1", "CollectionEvent", Collect(15, Rajasthan)>>,
           <<"F1", "CollectionEvent", Collect(15, Delhi)>>,
           <<"F1", "CollectionEvent", Moist(Collect(15, Rajasthan))>>,
           <<"F1", "CollectionEvent", Moist(Collect(60, Rajasthan))>>,
           <<"F1", "CollectionEvent", Moist(Collect(60, Chennai))>> }
    [] w = "roles" ->
         { <<"F1", "CollectionEvent", Collect(15, Rajasthan)>>,
           <<"F1", "ProcessingStep", Drying("1")>>,
           <<"A1", "CollectionEvent", Collect(15, Rajasthan)>> }
    [] w = "herbs" ->
         { <<"F1", "CollectionEvent", CollectHerb("tulsi", 10, Rajasthan)>>,
           <<"F1", "CollectionEvent", CollectHerb("neem", 10, Chennai)>> }
    [] w = "quality" ->
         { <<"F1", "CollectionEvent",
             WithQuality(Collect(15, Rajasthan), [moisture |-> 1000, withanolide |-> 0])>>,
           <<"F1", "CollectionEvent",
             WithQuality(Collect(15, Rajasthan), [withanolide |-> 20])>>,
           <<"F1", "CollectionEvent",
             WithQuality(Collect(15, Rajasthan), [pesticide |-> 2])>>,
           <<"F1", "CollectionEvent",
             WithQuality(Collect(15, Rajasthan), [heavyMetals |-> 1100, appearance |-> "good"])>> }
    [] w = "kinds" ->
         { <<"F1", "Audit", Report("B1")>>,
           <<"F1", "ManufacturingRecord", Product("B404")>> }
    [] w = "products" ->
         { <<"MF1", "ManufacturingRecord", Product("B404")>>,
           <<"MF1", "Audit", Report("B1")>> }
    [] w = "reports" ->
         { <<"R1", "ComplianceReport", Report("B404")>>,
           <<"R1", "ManufacturingRecord", Product("B404")>> }
    [] w = "lab" ->
         { <<"F1", "CollectionEvent", [batchId |-> "B1"] @@ Collect(15, Rajasthan)>>,
           <<"L9", "QualityTest", Test("B1", "LAB001")>>,
           <<"L9", "QualityTest", Test("B1", "L9")>> }
    [] w = "pow" ->
         { <<"F1", "CollectionEvent", Collect(15, Rajasthan)>> }

Miners == {"M1"}

(***************************************************************************)
(* State                                                                   *)
(***************************************************************************)
NoResult ==
  [op |-> "none", status |-> "", id |-> Undefined, rule |-> "", batch |-> Undefined,
   transaction |-> Undefined, valid |-> TRUE]

Res(op, status, id, rule, valid) ==
  [op |-> op, status |-> status, id |-> id, rule |-> rule, batch |-> Undefined,
   transaction |-> Undefined, valid |-> valid]

\* the Error of a rejected transaction; the message of a missing batch names
\* the batch id.  transaction is the object that was handed to the contract
\* and is discarded when the Error is thrown.
Rejection(transaction, contractResult) ==
  [op |-> "createTransaction", status |-> "ContractViolation", id |-> transaction.id,
   rule |-> contractResult.rule,
   batch |-> IF contractResult.rule = "batchTraceability"
               THEN Prop(transaction.data, "batchId") ELSE Undefined,
   transaction |-> transaction,
   valid |-> TRUE]

\* no mineBlock call is in progress
NoBlock == [idle |-> TRUE]

genesisBlock(t) ==
  [index |-> 0,
   timestamp |-> t,
   transactions |-> << [id |-> ToString(0),
                        type |-> "Genesis",
                        data |-> [message |-> "Ayurvedic Herb Traceability Blockchain Genesis"],
                        nodeId |-> "SYSTEM",
                        timestamp |-> t,
                        signature |-> Lit("GENESIS_SIGNATURE")] >>,
   previousHash |-> Lit("0"),
   hash |-> calculateHash(<<>>),
   nonce |-> 0]

\* no rateLimit middleware built
NoLimiter == [none |-> TRUE]

Init ==
  /\ now = 0
  /\ chain = << genesisBlock(0) >>
  /\ pendingTransactions = <<>>
  /\ nodes = <<>>
  /\ nextId = 1
  /\ result = NoResult
  /\ rejected = {}
  /\ tampered = "no"
  /\ workload \in Workloads
  /\ mining = NoBlock
  /\ rateLimits = <<>>
  /\ served = <<>>
  /\ limiter = NoLimiter

(***************************************************************************)
(* Operations                                                              *)
(***************************************************************************)
Tick ==
  /\ now < MaxTime
  /\ now' = now + 1
  /\ result' = NoResult
  /\ UNCHANGED <<chain, pendingTransactions, nodes, nextId, rejected, tampered, workload, mining, rateLimits, served, limiter>>

\* variant of registerNode that stores a node of any type
registerNode_noTypeCheck(nodeId, nodeType, publicKey, metadata) ==
  /\ nodes' = (nodeId :> [id |-> nodeId,
                          type |-> nodeType,
                          publicKey |-> publicKey,
                          metadata |-> metadata,
                          registeredAt |-> now,
                          active |-> TRUE,
                          permissions |-> getNodePermissions(nodeType)]) @@ nodes
  /\ result' = Res("registerNode", "ok", nodeId, "", TRUE)
  /\ UNCHANGED <<chain, pendingTransactions, now, nextId, rejected, tampered, workload, mining, rateLimits, served, limiter>>

registerNode(nodeId, nodeType, publicKey, metadata) ==
  IF ~Includes(allowedTypes, nodeType)
    THEN /\ result' = Res("registerNode", "InvalidNodeType", nodeId, "", TRUE)
         /\ UNCHANGED <<chain, pendingTransactions, nodes, now, nextId, rejected, tampered, workload, mining, rateLimits, served, limiter>>
    ELSE /\ nodes' = (nodeId :> [id |-> nodeId,
                                 type |-> nodeType,
                                 publicKey |-> publicKey,
                                 metadata |-> metadata,
                                 registeredAt |-> now,
                                 active |-> TRUE,
                                 permissions |-> getNodePermissions(nodeType)]) @@ nodes
         /\ result' = Res("registerNode", "ok", nodeId, "", TRUE)
         /\ UNCHANGED <<chain, pendingTransactions, now, nextId, rejected, tampered, workload, mining, rateLimits, served, limiter>>

\* variant of createTransaction that pushes the transaction before the
\* contract has validated it
createTransaction_pushFirst(nodeId, type, data, t2) ==
  IF ~Has(nodes, nodeId) \/ ~nodes[nodeId].active
    THEN /\ result' = Res("createTransaction", "NodeNotFoundOrInactive", Undefined, "", TRUE)
         /\ UNCHANGED <<chain, pendingTransactions, nodes, now, nextId, rejected, tampered, workload, mining, rateLimits, served, limiter>>
  ELSE IF ~Includes(nodes[nodeId].permissions, getRequiredPermission(type))
    THEN /\ result' = Res("createTransaction", "PermissionDenied", Undefined, "", TRUE)
         /\ UNCHANGED <<chain, pendingTransactions, nodes, now, nextId, rejected, tampered, workload, mining, rateLimits, served, limiter>>
  ELSE
    /\ nextId <= MaxTx
    /\ LET transactionData ==
             [id |-> ToString(nextId),
              type |-> type,
              data |-> [nodeId |-> nodeId, nodeType |-> nodes[nodeId].type] @@ data,
              nodeId |-> nodeId,
              timestamp |-> now]
           transaction ==
             [signature |-> signTransaction(transactionData, nodeId)] @@ transactionData
           history == getAllTransactions(chain)
           contractResult ==
             CASE type = "CollectionEvent" ->
                    executeCollectionEvent(transaction, history, toDateString(t2))
               [] type = "ProcessingStep" -> executeProcessingStep(transaction, history)
               [] type = "QualityTest" -> executeQualityTest(transaction, history)
               [] OTHER -> [valid |-> TRUE, contractHash |-> Lit("SYSTEM_APPROVED")]
       IN  /\ nextId' = nextId + 1
           /\ now' = IF type = "CollectionEvent" THEN t2 ELSE now
           /\ pendingTransactions' = Append(pendingTransactions, transaction)
           /\ IF contractResult.valid
                THEN /\ result' = Res("createTransaction", "ok", transaction.id, "", TRUE)
                     /\ UNCHANGED rejected
                ELSE /\ result' = Rejection(transaction, contractResult)
                     /\ rejected' = rejected \cup {transaction.id}
           /\ UNCHANGED <<chain, nodes, tampered, workload, mining, rateLimits, served, limiter>>

\* variant of createTransaction without the permission check
createTransaction_noPermissionCheck(nodeId, type, data, t2) ==
  IF ~Has(nodes, nodeId) \/ ~nodes[nodeId].active
    THEN /\ result' = Res("createTransaction", "NodeNotFoundOrInactive", Undefined, "", TRUE)
         /\ UNCHANGED <<chain, pendingTransactions, nodes, now, nextId, rejected, tampered, workload, mining, rateLimits, served, limiter>>
  ELSE
    /\ nextId <= MaxTx
    /\ LET node == nodes[nodeId]
           transactionData ==
             [id |-> ToString(nextId),
              type |-> type,
              data |-> [nodeId |-> nodeId, nodeType |-> node.type] @@ data,
              nodeId |-> nodeId,
              timestamp |-> now]
           transaction ==
             [signature |-> signTransaction(transactionData, nodeId)] @@ transactionData
           history == getAllTransactions(chain)
           contractResult ==
             CASE type = "CollectionEvent" ->
                    executeCollectionEvent(transaction, history, toDateString(t2))
               [] type = "ProcessingStep" ->
                    executeProcessingStep(transaction, history)
               [] type = "QualityTest" ->
                    executeQualityTest(transaction, history)
               [] OTHER ->
                    [valid |-> TRUE, contractHash |-> Lit("SYSTEM_APPROVED")]
       IN  /\ nextId' = nextId + 1
           /\ now' = IF type = "CollectionEvent" THEN t2 ELSE now
           /\ IF contractResult.valid
                THEN /\ pendingTransactions' =
                          Append(pendingTransactions,
                                 [contractValidation |-> contractResult] @@ transaction)
                     /\ result' = Res("createTransaction", "ok", transaction.id, "", TRUE)
                     /\ UNCHANGED rejected
                ELSE /\ result' = Rejection(transaction, contractResult)
                     /\ rejected' = rejected \cup {transaction.id}
                     /\ UNCHANGED pendingTransactions
           /\ UNCHANGED <<chain, nodes, tampered, workload, mining, rateLimits, served, limiter>>

\* variant of createTransaction that applies the batch rule of a
\* ProcessingStep to the types that have no contract
createTransaction_batchRuleByDefault(nodeId, type, data, t2) ==
  IF ~Has(nodes, nodeId) \/ ~nodes[nodeId].active
    THEN /\ result' = Res("createTransaction", "NodeNotFoundOrInactive", Undefined, "", TRUE)
         /\ UNCHANGED <<chain, pendingTransactions, nodes, now, nextId, rejected, tampered, workload, mining, rateLimits, served, limiter>>
  ELSE IF ~Includes(nodes[nodeId].permissions, getRequiredPermission(type))
    THEN /\ result' = Res("createTransaction", "PermissionDenied", Undefined, "", TRUE)
         /\ UNCHANGED <<chain, pendingTransactions, nodes, now, nextId, rejected, tampered, workload, mining, rateLimits, served, limiter>>
  ELSE
    /\ nextId <= MaxTx
    /\ LET node == nodes[nodeId]
           transactionData ==
             [id |-> ToString(nextId),
              type |-> type,
              data |-> [nodeId |-> nodeId, nodeType |-> node.type] @@ data,
              nodeId |-> nodeId,
              timestamp |-> now]
           transaction ==
             [signature |-> signTransaction(transactionData, nodeId)] @@ transactionData
           history == getAllTransactions(chain)
           contractResult ==
             CASE type = "CollectionEvent" ->
                    executeCollectionEvent(transaction, history, toDateString(t2))
               [] type = "ProcessingStep" ->
                    executeProcessingStep(transaction, history)
               [] type = "QualityTest" ->
                    executeQualityTest(transaction, history)
               [] OTHER ->
                    executeProcessingStep(transaction, history)
       IN  /\ nextId' = nextId + 1
           /\ now' = IF type = "CollectionEvent" THEN t2 ELSE now
           /\ IF contractResult.valid
                THEN /\ pendingTransactions' =
                          Append(pendingTransactions,
                                 [contractValidation |-> contractResult] @@ transaction)
                     /\ result' = Res("createTransaction", "ok", transaction.id, "", TRUE)
                     /\ UNCHANGED rejected
                ELSE /\ result' = Rejection(transaction, contractResult)
                     /\ rejected' = rejected \cup {transaction.id}
                     /\ UNCHANGED pendingTransactions
           /\ UNCHANGED <<chain, nodes, tampered, workload, mining, rateLimits, served, limiter>>

\* t2 is the clock read by validateDailyLimit (new Date()), not before the
\* Date.now() that stamps the transaction; the call returns at t2
createTransaction(nodeId, type, data, t2) ==
  IF ~Has(nodes, nodeId) \/ ~nodes[nodeId].active
    THEN /\ result' = Res("createTransaction", "NodeNotFoundOrInactive", Undefined, "", TRUE)
         /\ UNCHANGED <<chain, pendingTransactions, nodes, now, nextId, rejected, tampered, workload, mining, rateLimits, served, limiter>>
  ELSE IF ~Includes(nodes[nodeId].permissions, getRequiredPermission(type))
    THEN /\ result' = Res("createTransaction", "PermissionDenied", Undefined, "", TRUE)
         /\ UNCHANGED <<chain, pendingTransactions, nodes, now, nextId, rejected, tampered, workload, mining, rateLimits, served, limiter>>
  ELSE
    /\ nextId <= MaxTx
    /\ LET node == nodes[nodeId]
           transactionData ==
             [id |-> ToString(nextId),
              type |-> type,
              data |-> [nodeId |-> nodeId, nodeType |-> node.type] @@ data,
              nodeId |-> nodeId,
              timestamp |-> now]
           transaction ==
             [signature |-> signTransaction(transactionData, nodeId)] @@ transactionData
           history == getAllTransactions(chain)
           contractResult ==
             CASE type = "CollectionEvent" ->
                    executeCollectionEvent(transaction, history, toDateString(t2))
               [] type = "ProcessingStep" ->
                    executeProcessingStep(transaction, history)
               [] type = "QualityTest" ->
                    executeQualityTest(transaction, history)
               [] OTHER ->
                    [valid |-> TRUE, contractHash |-> Lit("SYSTEM_APPROVED")]
       IN  /\ nextId' = nextId + 1
           /\ now' = IF type = "CollectionEvent" THEN t2 ELSE now
           /\ IF contractResult.valid
                THEN /\ pendingTransactions' =
                          Append(pendingTransactions,
                                 [contractValidation |-> contractResult] @@ transaction)
                     /\ result' = Res("createTransaction", "ok", transaction.id, "", TRUE)
                     /\ UNCHANGED rejected
                ELSE /\ result' = Rejection(transaction, contractResult)
                     /\ rejected' = rejected \cup {transaction.id}
                     /\ UNCHANGED pendingTransactions
           /\ UNCHANGED <<chain, nodes, tampered, workload, mining, rateLimits, served, limiter>>

\* variant of the block literal that numbers the blocks from the chain length
\* after the append
NewBlock_indexAfterAppend(minerId) ==
  [index |-> Len(chain) + 1,
   timestamp |-> now,
   transactions |-> pendingTransactions,
   previousHash |-> getLatestBlock(chain).hash,
   minerId |-> minerId,
   nonce |-> 0]

\* variant of the block literal that leaves out the oldest pooled transaction
NewBlock_skipsFirst(minerId) ==
  [index |-> Len(chain),
   timestamp |-> now,
   transactions |-> Tail(pendingTransactions),
   previousHash |-> getLatestBlock(chain).hash,
   minerId |-> minerId,
   nonce |-> 0]

NewBlock(minerId) ==
  [index |-> Len(chain),
   timestamp |-> now,
   transactions |-> pendingTransactions,
   previousHash |-> getLatestBlock(chain).hash,
   minerId |-> minerId,
   nonce |-> 0]

\* variant of mineBlock that does not reset the pool
mineBlock_keepsPool(minerId) ==
  IF Len(pendingTransactions) = 0
    THEN /\ result' = Res("mineBlock", "NoPendingTransactions", Undefined, "", TRUE)
         /\ UNCHANGED <<chain, pendingTransactions, nodes, now, nextId, rejected, tampered, workload, mining, rateLimits, served, limiter>>
    ELSE /\ chain' = Append(chain, proofOfWork(NewBlock(minerId)))
         /\ result' = Res("mineBlock", "ok", Undefined, "", TRUE)
         /\ UNCHANGED <<pendingTransactions, nodes, now, nextId, rejected, tampered, workload, mining, rateLimits, served, limiter>>

\* variant of mineBlock without the check for an empty pool
mineBlock_noEmptyCheck(minerId) ==
  /\ chain' = Append(chain, proofOfWork(NewBlock(minerId)))
  /\ pendingTransactions' = <<>>
  /\ result' = Res("mineBlock", "ok", Undefined, "", TRUE)
  /\ UNCHANGED <<nodes, now, nextId, rejected, tampered, workload, mining, rateLimits, served, limiter>>

\* variant of mineBlock that overwrites the latest block once the chain has
\* more than the genesis block
mineBlock_replacesLatest(minerId) ==
  IF Len(pendingTransactions) = 0
    THEN /\ result' = Res("mineBlock", "NoPendingTransactions", Undefined, "", TRUE)
         /\ UNCHANGED <<chain, pendingTransactions, nodes, now, nextId, rejected, tampered, workload, mining, rateLimits, served, limiter>>
    ELSE /\ chain' = IF Len(chain) = 1
                       THEN Append(chain, proofOfWork(NewBlock(minerId)))
                       ELSE [chain EXCEPT ![Len(chain)] = proofOfWork(NewBlock(minerId))]
         /\ pendingTransactions' = <<>>
         /\ result' = Res("mineBlock", "ok", Undefined, "", TRUE)
         /\ UNCHANGED <<nodes, now, nextId, rejected, tampered, workload, mining, rateLimits, served, limiter>>

\* variant of mineBlock whose block holds the pool as it was before the last
\* push, and which then resets the whole pool
mineBlock_staleSnapshot(minerId) ==
  IF Len(pendingTransactions) = 0
    THEN /\ result' = Res("mineBlock", "NoPendingTransactions", Undefined, "", TRUE)
         /\ UNCHANGED <<chain, pendingTransactions, nodes, now, nextId, rejected, tampered, workload, mining, rateLimits, served, limiter>>
    ELSE LET snapshot == IF Len(pendingTransactions) = 1 THEN pendingTransactions
                         ELSE SubSeq(pendingTransactions, 1, Len(pendingTransactions) - 1)
             block == proofOfWork([NewBlock(minerId) EXCEPT !.transactions = snapshot])
         IN  /\ chain' = Append(chain, block)
             /\ pendingTransactions' = <<>>
             /\ result' = Res("mineBlock", "ok", Undefined, "", TRUE)
             /\ UNCHANGED <<nodes, now, nextId, rejected, tampered, workload, mining, rateLimits, served, limiter>>

mineBlock(minerId) ==
  IF Len(pendingTransactions) = 0
    THEN /\ result' = Res("mineBlock", "NoPendingTransactions", Undefined, "", TRUE)
         /\ UNCHANGED <<chain, pendingTransactions, nodes, now, nextId, rejected, tampered, workload, mining, rateLimits, served, limiter>>
    ELSE LET block == proofOfWork(NewBlock(minerId))
         IN  /\ chain' = Append(chain, block)
             /\ pendingTransactions' = <<>>
             /\ result' = Res("mineBlock", "ok", Undefined, "", TRUE)
             /\ UNCHANGED <<nodes, now, nextId, rejected, tampered, workload, mining, rateLimits, served, limiter>>

\* variant of isChainValid() that drops the latest block of a chain it finds
\* invalid
validateChain_repairs ==
  /\ result' = Res("isChainValid", "ok", Undefined, "", isChainValid(chain))
  /\ chain' = IF isChainValid(chain) THEN chain ELSE SubSeq(chain, 1, Len(chain) - 1)
  /\ UNCHANGED <<pendingTransactions, nodes, now, nextId, rejected, tampered, workload, mining, rateLimits, served, limiter>>

validateChain ==
  /\ result' = Res("isChainValid", "ok", Undefined, "", isChainValid(chain))
  /\ UNCHANGED <<chain, pendingTransactions, nodes, now, nextId, rejected, tampered, workload, mining, rateLimits, served, limiter>>

\* variant of getStats whose transaction count includes the pool
getStats_countsPool ==
  [totalBlocks         |-> Len(chain),
   totalTransactions   |-> Len(getAllTransactions(chain)) + Len(pendingTransactions),
   totalNodes          |-> Cardinality(DOMAIN nodes),
   pendingTransactions |-> Len(pendingTransactions),
   isValid             |-> isChainValid(chain),
   lastBlockTime       |-> getLatestBlock(chain).timestamp]

\* getStats() reads the state and changes nothing: the object it returns in
\* the current state
getStats ==
  [totalBlocks         |-> Len(chain),
   totalTransactions   |-> Len(getAllTransactions(chain)),
   totalNodes          |-> Cardinality(DOMAIN nodes),
   pendingTransactions |-> Len(pendingTransactions),
   isValid             |-> isChainValid(chain),
   lastBlockTime       |-> getLatestBlock(chain).timestamp]

Register == \E r \in RegisterRequests(workload) : registerNode(r[1], r[2], "pk", <<>>)

Submit ==
  \E r \in SubmitRequests(workload) : \E t2 \in {now, now + 1} :
     /\ t2 <= MaxTime
     /\ (r[2] # "CollectionEvent" => t2 = now)
     /\ createTransaction(r[1], r[2], r[3], t2)

Seal == \E m \in Miners : mineBlock(m)

Next == Tick \/ Register \/ Submit \/ Seal \/ validateChain

Spec == Init /\ [][Next]_vars

(***************************************************************************)
(* mineBlock, one iteration of the proof-of-work loop per step.  The call  *)
(* is synchronous: from its first statement to its return no other call    *)
(* is served, and the thread keeps executing it.                           *)
(***************************************************************************)
mineBlock_begin(minerId) ==
  /\ mining = NoBlock
  /\ IF Len(pendingTransactions) = 0
       THEN /\ result' = Res("mineBlock", "NoPendingTransactions", Undefined, "", TRUE)
            /\ UNCHANGED mining
       ELSE /\ mining' = NewBlock(minerId)
            /\ result' = NoResult
  /\ UNCHANGED <<chain, pendingTransactions, nodes, now, nextId, rejected, tampered, workload, rateLimits, served, limiter>>

\* variant of the loop body that does not increment the nonce
mineBlock_loop_sameNonce ==
  /\ mining # NoBlock
  /\ ~meetsDifficulty(mining)
  /\ mining' = withNonce(mining, mining.nonce)
  /\ UNCHANGED <<chain, pendingTransactions, nodes, now, nextId, result, rejected, tampered, workload, rateLimits, served, limiter>>

mineBlock_loop ==
  /\ mining # NoBlock
  /\ ~meetsDifficulty(mining)
  /\ mining' = withNonce(mining, mining.nonce + 1)
  /\ UNCHANGED <<chain, pendingTransactions, nodes, now, nextId, result, rejected, tampered, workload, rateLimits, served, limiter>>

mineBlock_end ==
  /\ mining # NoBlock
  /\ meetsDifficulty(mining)
  /\ chain' = Append(chain, mining)
  /\ pendingTransactions' = <<>>
  /\ mining' = NoBlock
  /\ result' = Res("mineBlock", "ok", Undefined, "", TRUE)
  /\ UNCHANGED <<nodes, now, nextId, rejected, tampered, workload, rateLimits, served, limiter>>

SealBegin == \E m \in Miners : mineBlock_begin(m)

InitSeal ==
  /\ now = 0
  /\ chain = << genesisBlock(0) >>
  /\ pendingTransactions = <<>>
  /\ nodes = <<>>
  /\ nextId = 1
  /\ result = NoResult
  /\ rejected = {}
  /\ tampered = "no"
  /\ workload = "pow"
  /\ mining = NoBlock
  /\ rateLimits = <<>>
  /\ served = <<>>
  /\ limiter = NoLimiter

NextSeal ==
  \/ (mining = NoBlock /\ (Tick \/ Register \/ Submit \/ validateChain))
  \/ SealBegin
  \/ mineBlock_loop
  \/ mineBlock_end

SpecSeal ==
  /\ InitSeal
  /\ [][NextSeal]_vars
  /\ WF_vars(mineBlock_loop)
  /\ WF_vars(mineBlock_end)

(***************************************************************************)
(* Tampering: a holder of a reference to the chain array (getChain hands   *)
(* out the live objects) rewrites a block after it was appended.  One      *)
(* tampering per behaviour, followed by isChainValid(); tampered records   *)
(* its kind.                                                               *)
(***************************************************************************)
ForgedPayloads(data) ==
  { [quantity |-> 1] @@ data, [forged |-> "yes"] @@ data } \ {data}

ForgedDigests(c) == { Lit("deadbeef") }

RemoveAt(c, i) == SubSeq(c, 1, i - 1) \o SubSeq(c, i + 1, Len(c))

tamperPayload ==
  /\ tampered = "no"
  /\ \E i \in 2..Len(chain) : \E k \in 1..Len(chain[i].transactions) :
       \E d \in ForgedPayloads(chain[i].transactions[k].data) :
          chain' = [chain EXCEPT ![i].transactions[k].data = d]
  /\ tampered' = "payload"
  /\ result' = NoResult
  /\ UNCHANGED <<pendingTransactions, nodes, now, nextId, rejected, workload, mining, rateLimits, served, limiter>>

tamperHash ==
  /\ tampered = "no"
  /\ \E i \in 1..Len(chain) : \E h \in ForgedDigests(chain) \ {chain[i].hash} :
          chain' = [chain EXCEPT ![i].hash = h]
  /\ tampered' = "hash"
  /\ result' = NoResult
  /\ UNCHANGED <<pendingTransactions, nodes, now, nextId, rejected, workload, mining, rateLimits, served, limiter>>

tamperPreviousHash ==
  /\ tampered = "no"
  /\ \E i \in 1..Len(chain) : \E h \in ForgedDigests(chain) \ {chain[i].previousHash} :
          chain' = [chain EXCEPT ![i].previousHash = h]
  /\ tampered' = "previousHash"
  /\ result' = NoResult
  /\ UNCHANGED <<pendingTransactions, nodes, now, nextId, rejected, workload, mining, rateLimits, served, limiter>>

removeBlock ==
  /\ tampered = "no"
  /\ Len(chain) >= 2
  /\ \E i \in 1..Len(chain) : chain' = RemoveAt(chain, i)
  /\ tampered' = "remove"
  /\ result' = NoResult
  /\ UNCHANGED <<pendingTransactions, nodes, now, nextId, rejected, workload, mining, rateLimits, served, limiter>>

reorderBlocks ==
  /\ tampered = "no"
  /\ \E i \in 1..Len(chain) : \E j \in (i + 1)..Len(chain) :
          chain' = [chain EXCEPT ![i] = chain[j], ![j] = chain[i]]
  /\ tampered' = "reorder"
  /\ result' = NoResult
  /\ UNCHANGED <<pendingTransactions, nodes, now, nextId, rejected, workload, mining, rateLimits, served, limiter>>

\* changes of <<index, timestamp, nonce>> written into a block: one field
\* alone, or index and timestamp together
HeaderChanges == { <<1, 0, 0>>, <<0, 1, 0>>, <<0, 0, 1>>, <<1, -1, 0>> }

tamperHeader ==
  /\ tampered = "no"
  /\ \E i \in 2..Len(chain) : \E d \in HeaderChanges :
          chain' = [chain EXCEPT ![i].index = @ + d[1],
                                 ![i].timestamp = @ + d[2],
                                 ![i].nonce = @ + d[3]]
  /\ tampered' = "header"
  /\ result' = NoResult
  /\ UNCHANGED <<pendingTransactions, nodes, now, nextId, rejected, workload, mining, rateLimits, served, limiter>>

Tamper ==
  \/ tamperPayload
  \/ tamperHash
  \/ tamperPreviousHash
  \/ removeBlock
  \/ reorderBlocks
  \/ tamperHeader

\* what is observed after a tampering is the next isChainValid()
NextTamper ==
  \/ (tampered = "no" /\ Next)
  \/ Tamper
  \/ (tampered # "no" /\ validateChain)

\* the ledgers that are tampered with are those of two of the workloads
InitTamper == Init /\ workload \in {"ceiling", "batch"}

SpecTamper == InitTamper /\ [][NextTamper]_vars

(***************************************************************************)
(* Request rate limiter (api/middleware/auth.js)                           *)
(***************************************************************************)
MaxClock == 3

\* req.ip + (req.user?.nodeId || 'anonymous')
Keys == {"10.0.0.1anonymous", "10.0.0.2F1"}

\* the (maxRequests, windowMs) pairs a middleware is built with
Limiters ==
  { [maxRequests |-> 1, windowMs |-> 1], [maxRequests |-> 2, windowMs |-> 1],
    [maxRequests |-> 1, windowMs |-> 2], [maxRequests |-> 2, windowMs |-> 2] }

\* rateLimits.get(key), an absent key reading as the [] the middleware sets
requestsOf(map, key) == IF key \in DOMAIN map THEN map[key] ELSE <<>>

\* requests.filter(timestamp => timestamp > windowStart)
validRequests(requests, windowStart) == SelectSeq(requests, LAMBDA timestamp : timestamp > windowStart)

\* variant of the middleware that still passes a request when the window is full
rateLimit_passesAtLimit(maxRequests, windowMs, key) ==
  LET windowStart == now - windowMs
      valid == validRequests(requestsOf(rateLimits, key), windowStart)
  IN /\ IF Len(valid) > maxRequests
          THEN /\ rateLimits' = (key :> valid) @@ rateLimits
               /\ result' = Res("rateLimit", "429", key, "", TRUE)
               /\ UNCHANGED served
          ELSE /\ rateLimits' = (key :> Append(valid, now)) @@ rateLimits
               /\ served' = (key :> Append(requestsOf(served, key), now)) @@ served
               /\ result' = Res("rateLimit", "next", key, "", TRUE)
     /\ UNCHANGED <<chain, pendingTransactions, nodes, now, nextId, rejected, tampered,
                    workload, mining, limiter>>

\* one request through the middleware rateLimit(maxRequests, windowMs) returns
rateLimit(maxRequests, windowMs, key) ==
  LET windowStart == now - windowMs
      valid == validRequests(requestsOf(rateLimits, key), windowStart)
  IN /\ IF Len(valid) >= maxRequests
          THEN /\ rateLimits' = (key :> valid) @@ rateLimits
               /\ result' = Res("rateLimit", "429", key, "", TRUE)
               /\ UNCHANGED served
          ELSE /\ rateLimits' = (key :> Append(valid, now)) @@ rateLimits
               /\ served' = (key :> Append(requestsOf(served, key), now)) @@ served
               /\ result' = Res("rateLimit", "next", key, "", TRUE)
     /\ UNCHANGED <<chain, pendingTransactions, nodes, now, nextId, rejected, tampered,
                    workload, mining, limiter>>

Request == \E key \in Keys : rateLimit(limiter.maxRequests, limiter.windowMs, key)

\* Date.now() moves on between two requests
Elapse ==
  /\ now < MaxClock
  /\ now' = now + 1
  /\ result' = NoResult
  /\ UNCHANGED <<chain, pendingTransactions, nodes, nextId, rejected, tampered,
                 workload, mining, rateLimits, served, limiter>>

InitRate ==
  /\ now = 0
  /\ chain = << genesisBlock(0) >>
  /\ pendingTransactions = <<>>
  /\ nodes = <<>>
  /\ nextId = 1
  /\ result = NoResult
  /\ rejected = {}
  /\ tampered = "no"
  /\ workload = "requests"
  /\ mining = NoBlock
  /\ rateLimits = <<>>
  /\ served = <<>>
  /\ limiter \in Limiters

NextRate == Elapse \/ Request

SpecRate == InitRate /\ [][NextRate]_vars

(***************************************************************************)
(* Properties                                                              *)
(***************************************************************************)
\* every event admitted so far: sealed events in chain order, then the pool
allAdmitted == getAllTransactions(chain) \o pendingTransactions

Days == 0..toDateString(MaxTime)

FarmersOf(txs) == { Prop(txs[i].data, "farmerId") : i \in 1..Len(txs) }

IdsOf(txs) == { txs[i].id : i \in 1..Len(txs) }

SubmitFailed(r) == r.op = "createTransaction" /\ r.status # "ok"

SubmitSucceeded(r) == r.op = "createTransaction" /\ r.status = "ok"

ContractViolation(r) == r.op = "createTransaction" /\ r.status = "ContractViolation"

\* the transaction built by the createTransaction that made the last step,
\* when that call got as far as the contract: the one just pushed on the
\* pool, or the one the contract refused
lastSubmitted ==
  IF SubmitSucceeded(result)
    THEN pendingTransactions[Len(pendingTransactions)]
    ELSE result.transaction

SealSucceeded(r) == r.op = "mineBlock" /\ r.status = "ok"

SealFailed(r) == r.op = "mineBlock" /\ r.status = "NoPendingTransactions"

\* C1: for every farmer, species and calendar day, the quantities of the
\* admitted CollectionEvents (pooled and sealed) sum to at most the species'
\* daily limit.
C1_DailyCeiling ==
  \A f \in FarmersOf(allAdmitted) : \A sp \in DOMAIN dailyLimits : \A day \in Days :
     SumQuantity(todaysCollectionsOf(f, sp, allAdmitted, day)) <= dailyLimits[sp]

\* C2: a ProcessingStep or QualityTest is never rejected for a missing batch
\* when its batch id is the id or the embedded batch id of an event that is
\* sealed or still in the pool.
C2_RulesSeePool ==
  [][ (SubmitFailed(result') /\ result'.rule = "batchTraceability") =>
        ~batchExistsIn(result'.batch, allAdmitted) ]_vars

\* C3: a successful mineBlock empties the pool and appends exactly one block
\* whose transactions are the pool as it was, in the same order; none of them
\* is in an earlier block.
C3_SealDrainsOnce ==
  [][ (SealSucceeded(result') \/ Len(chain') # Len(chain)) =>
        /\ pendingTransactions # <<>>
        /\ pendingTransactions' = <<>>
        /\ Len(chain') = Len(chain) + 1
        /\ SubSeq(chain', 1, Len(chain)) = chain
        /\ chain'[Len(chain')].transactions = pendingTransactions
        /\ IdsOf(pendingTransactions) \cap IdsOf(getAllTransactions(chain)) = {}
        /\ Cardinality(IdsOf(pendingTransactions)) = Len(pendingTransactions) ]_vars

C3_Witness ==
  /\ SealSucceeded(result)
  /\ pendingTransactions = <<>>
  /\ Len(getLatestBlock(chain).transactions) >= 2

\* C4: mineBlock on an empty pool fails with 'No pending transactions to
\* mine' and changes neither chain, pool nor registry; it fails in no other
\* case.
C4_EmptyPoolSeal ==
  [][ /\ (result'.op = "mineBlock" /\ pendingTransactions = <<>>) => SealFailed(result')
      /\ SealFailed(result') =>
           (pendingTransactions = <<>> /\ UNCHANGED <<chain, pendingTransactions, nodes>>) ]_vars

C4_Witness ==
  /\ SealFailed(result)
  /\ Len(chain) >= 2
  /\ pendingTransactions = <<>>

\* C5: a failed createTransaction leaves pool, chain and registry as they
\* were, and a rejected transaction is never found by id, neither in the
\* chain nor in the pool, in any later state.
C5_AdmissionAtomic ==
  /\ [][ SubmitFailed(result') => UNCHANGED <<chain, pendingTransactions, nodes>> ]_vars
  /\ [](\A id \in rejected :
          /\ getTransactionById(chain, id) = <<>>
          /\ id \notin IdsOf(pendingTransactions))

C5_Witness ==
  /\ SubmitFailed(result)
  /\ result.status = "ContractViolation"
  /\ rejected # {}
  /\ pendingTransactions # <<>>

\* C6: without tampering, isChainValid() is true in every reachable state.
C6_ChainValid == isChainValid(chain)

C6_Witness ==
  /\ Len(chain) >= 3
  /\ result.op = "isChainValid"
  /\ result.valid

\* C7: after the payload of an event in a mined block is changed, the stored
\* hash left as it was, isChainValid() is false.
C7_PayloadTamperDetected ==
  tampered = "payload" =>
     /\ ~isChainValid(chain)
     /\ (result.op = "isChainValid" => ~result.valid)

C7_Witness ==
  /\ tampered = "payload"
  /\ result.op = "isChainValid"
  /\ ~result.valid

\* C8: after the stored hash or previousHash of any block is changed, or
\* blocks are removed or reordered, isChainValid() is false.
C8_DigestTamperDetected ==
  tampered \in {"hash", "previousHash", "remove", "reorder"} => ~isChainValid(chain)

\* C9: the chain is never empty, its first block is the genesis block built
\* by the constructor, and every step keeps all existing blocks unchanged at
\* their positions.
C9_AppendOnly ==
  /\ [](chain # <<>> /\ chain[1] = genesisBlock(0))
  /\ [][ Len(chain') >= Len(chain) /\ SubSeq(chain', 1, Len(chain)) = chain ]_vars

C9_Witness ==
  /\ Len(chain) >= 3
  /\ SealSucceeded(result)

\* C10: isChainValid() changes neither chain, pool nor registry, and a second
\* call right after a first returns the same boolean.
C10_ValidateReadOnly ==
  [][ result'.op = "isChainValid" =>
        /\ UNCHANGED <<chain, pendingTransactions, nodes>>
        /\ result'.valid = isChainValid(chain)
        /\ (result.op = "isChainValid" => result'.valid = result.valid) ]_vars

C10_Witness ==
  /\ tampered # "no"
  /\ result.op = "isChainValid"
  /\ ~result.valid

\* C11: with season and daily limit satisfied, an ashwagandha collection at
\* the Rajasthan point (27.1952, 73.3119) is admitted, and the same collection
\* at the Delhi point (28.6139, 77.2090) is rejected by the geo-fencing rule.
C11_GeoFence ==
  LET tx == lastSubmitted IN
  ( /\ (SubmitSucceeded(result) \/ ContractViolation(result))
    /\ tx.type = "CollectionEvent"
    /\ tx.data.species = "ashwagandha"
    /\ ~Has(tx.data, "qualityMetrics")
    /\ validateSeason(tx.data.species, tx.timestamp)
    /\ validateDailyLimit(tx.data.farmerId, tx.data.species, tx.data.quantity,
                          getAllTransactions(chain), toDateString(now)) )
  => /\ tx.data.gps = Rajasthan => SubmitSucceeded(result)
     /\ tx.data.gps = Delhi => (ContractViolation(result) /\ result.rule = "geoFencing")

RegisterSucceeded(r) == r.op = "registerNode" /\ r.status = "ok"

\* C12: registerNode with an id that is already registered fails and leaves
\* the registry as it was; the type and the permissions of a registered node
\* are the same in every later state.
C12_DuplicateRejected ==
  [][ /\ (result'.op = "registerNode" /\ Has(nodes, result'.id)) =>
            (~RegisterSucceeded(result') /\ nodes' = nodes)
      /\ \A id \in DOMAIN nodes :
            /\ Has(nodes', id)
            /\ nodes'[id].type = nodes[id].type
            /\ nodes'[id].permissions = nodes[id].permissions ]_vars

RegisterFailed(r) == r.op = "registerNode" /\ r.status = "InvalidNodeType"

\* the permissions table of getNodePermissions, written out
PermissionsOf ==
  [farmer       |-> <<"create_collection_event", "read_own_data">>,
   processor    |-> <<"create_processing_step", "read_batch_data">>,
   lab          |-> <<"create_quality_test", "read_test_data">>,
   manufacturer |-> <<"create_manufacturing_record", "generate_qr">>,
   regulator    |-> <<"read_all_data", "create_compliance_report", "flag_violations">>]

\* C13: a registerNode that fails for its node type leaves the registry and
\* its size as they were, a registerNode that succeeds has stored a node of
\* one of the five types, and every registered node has one of the five types
\* and exactly the permissions the table gives that type.
C13_InvalidRoleRejected ==
  /\ [][ /\ RegisterFailed(result') =>
               (nodes' = nodes /\ Cardinality(DOMAIN nodes') = Cardinality(DOMAIN nodes))
         /\ RegisterSucceeded(result') =>
               (Has(nodes', result'.id) /\ nodes'[result'.id].type \in DOMAIN PermissionsOf) ]_vars
  /\ [](\A id \in DOMAIN nodes :
          /\ nodes[id].type \in DOMAIN PermissionsOf
          /\ Cardinality(DOMAIN PermissionsOf) = 5
          /\ nodes[id].permissions = PermissionsOf[nodes[id].type])

C13_Witness ==
  /\ RegisterFailed(result)
  /\ result.id = "A1"
  /\ Cardinality(DOMAIN nodes) = 1

\* C14: a createTransaction that reaches the contract was called for a node
\* that is registered, active and holds the permission required for the
\* transaction type, any other call fails and changes nothing; every
\* transaction in the pool or in a block after the genesis block carries the
\* id and type of its node, and that type holds the required permission.
C14_PermissionedAdmission ==
  /\ [][ /\ (SubmitSucceeded(result') \/ ContractViolation(result')) =>
               LET tx == lastSubmitted' IN
                 /\ Has(nodes, tx.nodeId)
                 /\ nodes[tx.nodeId].active
                 /\ Includes(nodes[tx.nodeId].permissions, getRequiredPermission(tx.type))
                 /\ tx.data.nodeType = nodes[tx.nodeId].type
         /\ result'.status \in {"NodeNotFoundOrInactive", "PermissionDenied"} =>
               UNCHANGED <<chain, pendingTransactions, nodes, nextId>> ]_vars
  /\ [](\A i \in 2..Len(allAdmitted) :
          LET tx == allAdmitted[i] IN
            /\ tx.data.nodeId = tx.nodeId
            /\ tx.data.nodeType \in DOMAIN PermissionsOf
            /\ Includes(PermissionsOf[tx.data.nodeType], getRequiredPermission(tx.type)))

C14_Witness ==
  /\ result.op = "createTransaction"
  /\ result.status = "PermissionDenied"
  /\ Has(nodes, "F1")
  /\ nodes["F1"].type = "processor"
  /\ \E i \in 2..Len(allAdmitted) :
        allAdmitted[i].nodeId = "F1" /\ allAdmitted[i].type = "CollectionEvent"

\* C15: a tulsi or neem collection by a farmer, within the season and the
\* daily limit of the species, is admitted whatever its GPS point.
C15_UnrestrictedSpecies ==
  LET tx == lastSubmitted IN
  ( /\ (SubmitSucceeded(result) \/ ContractViolation(result))
    /\ tx.type = "CollectionEvent"
    /\ tx.data.species \in {"tulsi", "neem"}
    /\ tx.data.nodeType = "farmer"
    /\ ~Has(tx.data, "qualityMetrics")
    /\ validateSeason(tx.data.species, tx.timestamp)
    /\ validateDailyLimit(tx.data.farmerId, tx.data.species, tx.data.quantity,
                          getAllTransactions(chain), toDateString(now)) )
  => SubmitSucceeded(result)

\* C16: the transaction returned by a successful createTransaction is appended
\* to the pool; from then on it is held exactly once, in the pool or in one
\* block: it leaves the pool only by a successful mineBlock, which puts it in
\* the new block, and a transaction in a block stays in that block at its
\* position.
C16_EventLifecycle ==
  /\ [][ /\ SubmitSucceeded(result') =>
               /\ Len(pendingTransactions') = Len(pendingTransactions) + 1
               /\ lastSubmitted'.id = result'.id
         /\ Len(allAdmitted') >= Len(allAdmitted)
         /\ SubSeq(allAdmitted', 1, Len(allAdmitted)) = allAdmitted
         /\ \A i \in 1..Len(chain) :
               Len(chain') >= i /\ chain'[i].transactions = chain[i].transactions
         /\ (\E id \in IdsOf(pendingTransactions) : id \notin IdsOf(pendingTransactions')) =>
               /\ SealSucceeded(result')
               /\ IdsOf(pendingTransactions) \subseteq IdsOf(getLatestBlock(chain').transactions) ]_vars
  /\ [](Cardinality(IdsOf(allAdmitted)) = Len(allAdmitted))

C16_Witness ==
  /\ SubmitSucceeded(result)
  /\ Len(chain) >= 2
  /\ result.id \in IdsOf(pendingTransactions)
  /\ result.id \notin IdsOf(getAllTransactions(chain))

\* the ids drawn so far by createTransaction, and the id of the genesis
\* transaction
DrawnIds == { ToString(n) : n \in 0..(nextId - 1) }

\* C17: whatever the order in which createTransaction and mineBlock calls
\* are served, every transaction that was admitted (its id drawn and not
\* refused by the contract) is held in a block or in the pool, and none is
\* held twice.
C17_NoLossNoDoubleSeal ==
  /\ IdsOf(allAdmitted) = DrawnIds \ rejected
  /\ Len(allAdmitted) = Cardinality(DrawnIds \ rejected)
  /\ \A i, j \in 1..Len(chain) :
        i # j => IdsOf(chain[i].transactions) \cap IdsOf(chain[j].transactions) = {}
  /\ IdsOf(getAllTransactions(chain)) \cap IdsOf(pendingTransactions) = {}

C17_Witness ==
  /\ SealSucceeded(result)
  /\ Len(chain) = 3
  /\ Len(chain[2].transactions) = 1
  /\ Len(chain[3].transactions) = 1
  /\ chain[2].transactions[1].id # chain[3].transactions[1].id

\* C18: a mineBlock call that has built its block (the pool was not empty)
\* leaves pool and chain as they are while it searches, and eventually
\* returns: the block it appends has difficulty leading zeros, is the block
\* the search of the one-step mineBlock finds, and the pool is empty.
C18_SealTerminates ==
  /\ (mining # NoBlock) ~> (mining = NoBlock /\ SealSucceeded(result))
  /\ [][ /\ mining' # NoBlock =>
               (pendingTransactions # <<>> /\ UNCHANGED <<chain, pendingTransactions>>)
         /\ (mining # NoBlock /\ mining' = NoBlock) =>
               /\ meetsDifficulty(mining)
               /\ mining = proofOfWork(NewBlock(mining.minerId))
               /\ chain' = Append(chain, mining)
               /\ pendingTransactions' = <<>> ]_vars

C18_Witness ==
  /\ mining # NoBlock
  /\ Has(mining, "hash")
  /\ mining.nonce >= 3
  /\ ~meetsDifficulty(mining)
  /\ Len(chain) >= 2

RECURSIVE SumOfBlockSizes(_)
SumOfBlockSizes(c) ==
  IF c = <<>> THEN 0 ELSE Len(Head(c).transactions) + SumOfBlockSizes(Tail(c))

Count(b) == IF b THEN 1 ELSE 0

\* C19: in every reachable state getStats() reports the chain length, the
\* sum of the transaction counts of all blocks, the pool length, the number
\* of registered ids, the value of isChainValid() and the timestamp of the
\* last block.  Initially blocks = 1, transactions = 1, pending = 0 and
\* nodes = 0; every successful mineBlock adds one to the block count, every
\* successful createTransaction adds one to transactions + pending, every
\* successful registerNode of a new id adds one to the node count, and no
\* other step changes these numbers.
C19_StatsConsistent ==
  /\ getStats.totalBlocks = 1
  /\ getStats.totalTransactions + getStats.pendingTransactions = 1
  /\ getStats.totalNodes = 0
  /\ [](LET stats == getStats IN
        /\ stats.totalBlocks = Len(chain)
        /\ stats.totalTransactions = SumOfBlockSizes(chain)
        /\ stats.pendingTransactions = Len(pendingTransactions)
        /\ stats.totalNodes = Cardinality({ nodes[id].id : id \in DOMAIN nodes })
        /\ stats.isValid = isChainValid(chain)
        /\ stats.lastBlockTime = chain[Len(chain)].timestamp)
  /\ [][ LET before == getStats
             after == getStats'
         IN  /\ after.totalBlocks = before.totalBlocks + Count(SealSucceeded(result'))
             /\ after.totalTransactions + after.pendingTransactions =
                   before.totalTransactions + before.pendingTransactions
                     + Count(SubmitSucceeded(result'))
             /\ after.totalNodes =
                   before.totalNodes
                     + Count(RegisterSucceeded(result') /\ ~Has(nodes, result'.id)) ]_vars

C19_Witness ==
  /\ getStats.totalBlocks = 2
  /\ getStats.totalTransactions = 2
  /\ getStats.pendingTransactions = 1
  /\ getStats.totalNodes = 2
  /\ getStats.lastBlockTime = 1

\* the first of the four rules of executeCollectionEvent, in the order
\* geo-fencing, season, daily limit, quality, that the transaction fails
FirstFailingRule(tx, existingTransactions, today) ==
  IF ~validateGeoFencing(tx.data.species, tx.data.gps) THEN "geoFencing"
  ELSE IF ~validateSeason(tx.data.species, tx.timestamp) THEN "seasonalRestriction"
  ELSE IF ~validateDailyLimit(tx.data.farmerId, tx.data.species, tx.data.quantity,
                              existingTransactions, today) THEN "dailyLimit"
  ELSE IF /\ Has(tx.data, "qualityMetrics")
          /\ ~validateQuality(tx.data.species, tx.data.qualityMetrics).valid THEN "quality"
  ELSE "none"

\* C20: a CollectionEvent is refused with the reason of the first rule it
\* fails in the order geo-fencing, season, daily limit, quality, and is
\* admitted only when it fails none.
C20_FailFastOrder ==
  LET tx == lastSubmitted
      first == FirstFailingRule(tx, getAllTransactions(chain), toDateString(now))
  IN  ((SubmitSucceeded(result) \/ ContractViolation(result)) /\ tx.type = "CollectionEvent")
      => /\ ContractViolation(result) => result.rule = first
         /\ SubmitSucceeded(result) => first = "none"

C20_Witness ==
  /\ ContractViolation(result)
  /\ result.rule = "geoFencing"
  /\ ~validateSeason(result.transaction.data.species, result.transaction.timestamp)
  /\ result.transaction.data.quantity > dailyLimits[result.transaction.data.species]
  /\ Has(result.transaction.data, "qualityMetrics")

\* a metric of the payload that is outside the bound of the thresholds
OutOfBound(qualityMetrics, thresholds) ==
  \/ Has(qualityMetrics, "moisture") /\ qualityMetrics.moisture > thresholds.moistureMax
  \/ Has(qualityMetrics, "withanolide") /\ qualityMetrics.withanolide < thresholds.withanolideMin
  \/ Has(qualityMetrics, "pesticide") /\ qualityMetrics.pesticide > thresholds.pesticideMax
  \/ Has(qualityMetrics, "heavyMetals") /\ qualityMetrics.heavyMetals > thresholds.heavyMetalsMax

\* C21: an admitted CollectionEvent that carries quality metrics is of a
\* species with quality thresholds, and none of the metrics it carries is
\* outside its bound: moisture, pesticide and heavy metals at most the
\* maximum, withanolide (a content of 0 included) at least the minimum.
C21_QualityThresholds ==
  \A i \in 2..Len(allAdmitted) :
     LET tx == allAdmitted[i] IN
       (tx.type = "CollectionEvent" /\ Has(tx.data, "qualityMetrics")) =>
          /\ Has(qualityThresholds, tx.data.species)
          /\ ~OutOfBound(tx.data.qualityMetrics, qualityThresholds[tx.data.species])

\* C22: the stored hash of every block of the chain, the genesis block
\* included, begins with difficulty zeros.
C22_DifficultyInvariant ==
  \A i \in 1..Len(chain) : meetsDifficulty(chain[i])

\* C23: the nonce of a mined block is the smallest n >= 0 for which the hash
\* of the block with nonce n begins with difficulty zeros; a block whose hash
\* with nonce 0 passes is stored with nonce 0.
C23_NonceFromZero ==
  \A i \in 2..Len(chain) :
     /\ chain[i].hash = calculateHash(chain[i])
     /\ meetsDifficulty(chain[i])
     /\ \A n \in 0..(chain[i].nonce - 1) : ~meetsDifficulty(withNonce(chain[i], n))

\* C24: the block at position i of the chain (counted from 0) has index i,
\* every block after the first stores the hash of the block before it as its
\* previousHash, and a step that appends a block appends one whose index is
\* the chain length before the step.
C24_IndexAndLinkage ==
  /\ [](\A i \in 1..Len(chain) :
          /\ chain[i].index = i - 1
          /\ i >= 2 => chain[i].previousHash = chain[i - 1].hash)
  /\ [][ Len(chain') # Len(chain) =>
           /\ Len(chain') = Len(chain) + 1
           /\ getLatestBlock(chain').index = Len(chain)
           /\ getLatestBlock(chain').previousHash = getLatestBlock(chain).hash ]_vars

C24_Witness ==
  /\ Len(chain) = 3
  /\ chain[3].index = 2
  /\ chain[3].previousHash = chain[2].hash
  /\ chain[2].previousHash # chain[3].previousHash

\* C25: after the index, the timestamp or the nonce of a block after the
\* genesis block is changed, alone or together (index raised by 1 and
\* timestamp lowered by 1), the stored hash left as it was, isChainValid() is
\* false.
C25_DigestCoversEachField ==
  tampered = "header" => ~isChainValid(chain)

DefaultKinds == {"ManufacturingRecord", "ComplianceReport"}

\* C26: a ManufacturingRecord or ComplianceReport of a node that passed the
\* node and permission checks is never refused by the contract, whatever its
\* payload and the history: it is pushed on the pool with the validation
\* SYSTEM_APPROVED.
C26_DefaultAllow ==
  /\ ContractViolation(result) => result.transaction.type \notin DefaultKinds
  /\ \A i \in 2..Len(allAdmitted) :
        allAdmitted[i].type \in DefaultKinds =>
          allAdmitted[i].contractValidation =
            [valid |-> TRUE, contractHash |-> Lit("SYSTEM_APPROVED")]
  /\ (result.op = "createTransaction" /\ result.id # Undefined
        /\ lastSubmitted.type \in DefaultKinds) => SubmitSucceeded(result)

C26_Witness ==
  /\ SubmitSucceeded(result)
  /\ lastSubmitted.type = "ManufacturingRecord"
  /\ lastSubmitted.nodeId = "MF1"
  /\ Len(pendingTransactions) = 1
  /\ ~batchExistsIn(lastSubmitted.data.batchId, getAllTransactions(chain))

\* C27: every QualityTest in the pool or in a block names a batch that an
\* earlier admitted transaction carries, and was submitted by a node whose
\* id is one of the certified labs LAB001, LAB002, LAB003.
C27_CertifiedLabSubmits ==
  \A i \in 2..Len(allAdmitted) :
     LET tx == allAdmitted[i] IN
       tx.type = "QualityTest" =>
          /\ batchExistsIn(Prop(tx.data, "batchId"), SubSeq(allAdmitted, 1, i - 1))
          /\ Includes(certifiedLabs, tx.nodeId)

EventKinds ==
  {"CollectionEvent", "ProcessingStep", "QualityTest", "ManufacturingRecord", "ComplianceReport"}

\* C28: every transaction in the pool or in a block after the genesis block
\* has one of the five types CollectionEvent, ProcessingStep, QualityTest,
\* ManufacturingRecord, ComplianceReport.
C28_ClosedKinds ==
  \A i \in 2..Len(allAdmitted) : allAdmitted[i].type \in EventKinds

\* the members of a sequence
Range(seq) == { seq[i] : i \in 1..Len(seq) }

\* the keys a batch lookup is made with: transaction ids and batch ids
BatchKeys(txs) == IdsOf(txs) \cup { Prop(txs[i].data, "batchId") : i \in 1..Len(txs) }

IsPrefix(s, t) == Len(s) <= Len(t) /\ SubSeq(t, 1, Len(s)) = s

\* C29: a transaction in the pool is found neither by getTransactionById nor
\* in any result of getTransactionsByBatchId; a transaction in a block is
\* found by its id and under its id and batch id; and no step changes what
\* getTransactionById returns for a mined transaction, or removes or moves
\* an entry of a result of getTransactionsByBatchId.
C29_LookupFollowsSealing ==
  /\ [](/\ \A tx \in Range(pendingTransactions) :
             /\ getTransactionById(chain, tx.id) = <<>>
             /\ \A key \in BatchKeys(allAdmitted) :
                   tx \notin Range(getTransactionsByBatchId(chain, key))
        /\ \A tx \in Range(getAllTransactions(chain)) :
             /\ getTransactionById(chain, tx.id) = <<tx>>
             /\ tx \in Range(getTransactionsByBatchId(chain, tx.id))
             /\ tx \in Range(getTransactionsByBatchId(chain, Prop(tx.data, "batchId"))))
  /\ [][ chain' # chain =>
           /\ \A tx \in Range(getAllTransactions(chain)) :
                 getTransactionById(chain', tx.id) = getTransactionById(chain, tx.id)
           /\ \A key \in BatchKeys(allAdmitted) :
                 IsPrefix(getTransactionsByBatchId(chain, key),
                          getTransactionsByBatchId(chain', key)) ]_vars

C29_Witness ==
  /\ Len(chain) >= 2
  /\ \E tx \in Range(pendingTransactions) :
        /\ Has(tx.data, "batchId")
        /\ getTransactionsByBatchId(chain, tx.data.batchId) # <<>>
        /\ getTransactionById(chain, tx.id) = <<>>

\* the requests of a key handed to next() with a timestamp in (t - windowMs, t]
passedInWindow(key, t) ==
  Len(SelectSeq(requestsOf(served, key),
                LAMBDA timestamp : timestamp > t - limiter.windowMs /\ timestamp <= t))

\* C30: with non-decreasing timestamps, the requests of one key handed to
\* next() whose timestamps lie in any window (t - windowMs, t] never number
\* more than maxRequests; a request is answered 429 exactly when maxRequests
\* requests of its key were handed on within the window ending at its
\* timestamp, so a request answered 429 is not recorded and does not count
\* against later requests.
C30_RateLimiterBound ==
  /\ [](\A key \in Keys : \A t \in 0..now : passedInWindow(key, t) <= limiter.maxRequests)
  /\ [][ result'.op = "rateLimit" =>
           LET key == result'.id
           IN /\ (result'.status = "429") <=> (passedInWindow(key, now) >= limiter.maxRequests)
              /\ (result'.status = "429") => served' = served
              /\ (result'.status = "next") =>
                    served' = (key :> Append(requestsOf(served, key), now)) @@ served
       ]_vars

C30_Witness ==
  /\ result.op = "rateLimit"
  /\ result.status = "429"
  /\ limiter.maxRequests = 2
  /\ Len(requestsOf(served, result.id)) > Len(requestsOf(rateLimits, result.id))
  /\ passedInWindow(result.id, now) = 2

====
